---- MODULE Spec2Model ----
(***************************************************************************)
(* A model of PackagePatrol's DependencyChecker (src/dependency_checker.py)*)
(* Text is modelled by TLA+ strings handled character by character, so     *)
(* that parsing, rendering and substring replacement behave as in Python.  *)
(***************************************************************************)
EXTENDS Integers, Sequences, FiniteSets, TLC

(***************************************************************************)
(* Python string primitives                                                *)
(***************************************************************************)

Ch(s, i) == SubSeq(s, i, i)

Sub(s, a, b) == IF a > b THEN "" ELSE SubSeq(s, a, b)

\* the characters str.strip() removes and the regex class \s matches
Whitespace == {" ", "\t", "\n", "\r", "\f"}

\* the characters of the regex class [<>=!~]
OpChars == {"<", ">", "=", "!", "~"}

Quotes == {"'", "\""}

RECURSIVE SkipWhile(_, _, _)
SkipWhile(s, chars, i) ==
    IF i <= Len(s) /\ Ch(s, i) \in chars THEN SkipWhile(s, chars, i + 1) ELSE i

RECURSIVE SkipUntil(_, _, _)
SkipUntil(s, chars, i) ==
    IF i <= Len(s) /\ Ch(s, i) \notin chars THEN SkipUntil(s, chars, i + 1) ELSE i

RECURSIVE SkipBack(_, _, _)
SkipBack(s, chars, j) ==
    IF j >= 1 /\ Ch(s, j) \in chars THEN SkipBack(s, chars, j - 1) ELSE j

\* str.lstrip(chars)
LStrip(s, chars) == Sub(s, SkipWhile(s, chars, 1), Len(s))

\* str.strip(chars)
Strip(s, chars) == Sub(s, SkipWhile(s, chars, 1), SkipBack(s, chars, Len(s)))

\* str.startswith(prefix)
StartsWith(s, prefix) ==
    Len(s) >= Len(prefix) /\ Sub(s, 1, Len(prefix)) = prefix

UpperCase == "ABCDEFGHIJKLMNOPQRSTUVWXYZ"
LowerCase == "abcdefghijklmnopqrstuvwxyz"

LowerCh(c) ==
    IF \E i \in 1..Len(UpperCase) : Ch(UpperCase, i) = c
    THEN Ch(LowerCase, CHOOSE i \in 1..Len(UpperCase) : Ch(UpperCase, i) = c)
    ELSE c

\* str.lower()
RECURSIVE Lower(_)
Lower(s) == IF s = "" THEN "" ELSE LowerCh(Ch(s, 1)) \o Lower(Sub(s, 2, Len(s)))

\* str.replace(old, new) for a non-empty old: every non-overlapping
\* occurrence, left to right
RECURSIVE ReplaceFrom(_, _, _, _)
ReplaceFrom(s, old, new, i) ==
    IF i > Len(s) THEN ""
    ELSE IF i + Len(old) - 1 <= Len(s) /\ Sub(s, i, i + Len(old) - 1) = old
         THEN new \o ReplaceFrom(s, old, new, i + Len(old))
         ELSE Ch(s, i) \o ReplaceFrom(s, old, new, i + 1)

\* str.replace(old, new) for an empty old: new before every character and
\* at the end
RECURSIVE Interleave(_, _)
Interleave(s, new) ==
    IF s = "" THEN new ELSE new \o Ch(s, 1) \o Interleave(Sub(s, 2, Len(s)), new)

Replace(s, old, new) ==
    IF old = "" THEN Interleave(s, new) ELSE ReplaceFrom(s, old, new, 1)

\* first index >= i at which sub occurs in s, 0 if none
RECURSIVE Find(_, _, _)
Find(s, sub, i) ==
    IF i + Len(sub) - 1 > Len(s) THEN 0
    ELSE IF Sub(s, i, i + Len(sub) - 1) = sub THEN i
    ELSE Find(s, sub, i + 1)

\* str.split(sep) for a one-character sep
RECURSIVE SplitOn(_, _)
SplitOn(s, sep) ==
    LET i == SkipUntil(s, {sep}, 1)
    IN  IF i > Len(s) THEN <<s>>
        ELSE <<Sub(s, 1, i - 1)>> \o SplitOn(Sub(s, i + 1, Len(s)), sep)

(***************************************************************************)
(* packaging.version / packaging.specifiers, for release-only versions     *)
(* (dot-separated numbers) and the operators ~= == != <= >= < >            *)
(***************************************************************************)

Digits == "0123456789"

IsDigit(c) == \E i \in 1..Len(Digits) : Ch(Digits, i) = c

DigitVal(c) == (CHOOSE i \in 1..Len(Digits) : Ch(Digits, i) = c) - 1

IsNumber(p) == p # "" /\ \A i \in 1..Len(p) : IsDigit(Ch(p, i))

RECURSIVE ToInt(_)
ToInt(p) ==
    IF p = "" THEN 0
    ELSE 10 * ToInt(Sub(p, 1, Len(p) - 1)) + DigitVal(Ch(p, Len(p)))

\* version.parse(s) succeeds (does not raise InvalidVersion)
ValidVersion(s) ==
    LET parts == SplitOn(Strip(s, Whitespace), ".")
    IN  \A i \in DOMAIN parts : IsNumber(parts[i])

\* Version.release
Release(s) ==
    LET parts == SplitOn(Strip(s, Whitespace), ".")
    IN  [i \in DOMAIN parts |-> ToInt(parts[i])]

Seg(rel, i) == IF i <= Len(rel) THEN rel[i] ELSE 0

MaxOf(a, b) == IF a >= b THEN a ELSE b

MinOf(a, b) == IF a <= b THEN a ELSE b

\* Version.__lt__ on releases: trailing zeros do not count
RelLess(a, b) ==
    \E i \in 1..MaxOf(Len(a), Len(b)) :
        /\ Seg(a, i) < Seg(b, i)
        /\ \A j \in 1..(i - 1) : Seg(a, j) = Seg(b, j)

RelEq(a, b) == \A i \in 1..MaxOf(Len(a), Len(b)) : Seg(a, i) = Seg(b, i)

\* release[:2]
Release2(s) == LET r == Release(s) IN SubSeq(r, 1, MinOf(2, Len(r)))

SpecOperators == <<"~=", "==", "!=", "<=", ">=", "<", ">">>

\* one clause of a specifier set split into operator and version text;
\* operator "" when the clause starts with none
SpecClause(clause) ==
    LET t == Strip(clause, Whitespace)
        hits == {i \in DOMAIN SpecOperators : StartsWith(t, SpecOperators[i])}
    IN  IF hits = {} THEN [operator |-> "", version |-> t]
        ELSE LET op == SpecOperators[CHOOSE i \in hits : \A j \in hits : i <= j]
             IN  [operator |-> op,
                  version |-> Strip(Sub(t, Len(op) + 1, Len(t)), Whitespace)]

ValidClause(clause) ==
    LET c == SpecClause(clause)
    IN  /\ c.operator # ""
        /\ c.version # ""
        /\ ValidVersion(c.version)
        /\ c.operator = "~=" => Len(Release(c.version)) >= 2

\* the clauses SpecifierSet(text) keeps: comma separated, blank ones dropped
Clauses(text) ==
    SelectSeq(SplitOn(text, ","), LAMBDA c : Strip(c, Whitespace) # "")

\* specifiers.SpecifierSet(text) succeeds (does not raise InvalidSpecifier)
ValidSpecifierSet(text) ==
    \A i \in DOMAIN Clauses(text) : ValidClause(Clauses(text)[i])

\* Specifier.contains
ClauseContains(clause, candidate) ==
    LET c == SpecClause(clause)
        v == Release(c.version)
        x == Release(candidate)
    IN  CASE c.operator = "==" -> RelEq(x, v)
          [] c.operator = "!=" -> ~RelEq(x, v)
          [] c.operator = "<=" -> ~RelLess(v, x)
          [] c.operator = ">=" -> ~RelLess(x, v)
          [] c.operator = "<"  -> RelLess(x, v)
          [] c.operator = ">"  -> RelLess(v, x)
          [] c.operator = "~=" ->
                /\ ~RelLess(x, v)
                /\ \A i \in 1..(Len(v) - 1) : Seg(x, i) = v[i]
          [] OTHER -> FALSE

\* SpecifierSet.contains
SetContains(text, candidate) ==
    \A i \in DOMAIN Clauses(text) : ClauseContains(Clauses(text)[i], candidate)

(***************************************************************************)
(* DependencyChecker: parsing, lookup, decision, rendering                 *)
(***************************************************************************)

\* self.file_paths
file_paths == <<"requirements.txt", "requirements.lock", "setup.py", "Pipfile">>

\* the prefixes parse_requirement skips
ExcludedPrefixes == <<"--", "-e", "from", "import", "def", "os", "sys">>

\* the names get_latest_version never asks the registry about
standard_libs ==
    {"sys", "os", "re", "time", "logging", "json", "requests",
     "from", "import", "def"}

Sentinel == [name |-> "", spec |-> "", operator |-> ""]

\* re.match(r"([^<>=!~\s]+)([<>=!~].+)?", req): group 1 is the longest run
\* of characters that are neither comparison symbols nor whitespace; group 2
\* starts at a comparison symbol and needs one more character before the
\* end of the line
parse_requirement(line) ==
    LET req == Strip(line, Quotes)
        n   == SkipUntil(req, OpChars \cup Whitespace, 1) - 1
        e   == SkipUntil(req, {"\n"}, n + 1) - 1
        g2  == IF n + 1 <= Len(req) /\ Ch(req, n + 1) \in OpChars /\ e >= n + 2
               THEN Sub(req, n + 1, e) ELSE ""
        spec == Strip(g2, Whitespace)
    IN  IF \E i \in DOMAIN ExcludedPrefixes : StartsWith(req, ExcludedPrefixes[i])
        THEN Sentinel
        ELSE IF n = 0
        THEN [name |-> Strip(req, Whitespace), spec |-> "", operator |-> ""]
        ELSE [name |-> Strip(Sub(req, 1, n), Whitespace),
              spec |-> spec,
              operator |-> IF spec # ""
                           THEN Sub(spec, 1, SkipWhile(spec, OpChars, 1) - 1)
                           ELSE ""]

\* get_latest_version sends a request to the registry for this name
IsLookedUp(package_name) ==
    package_name # "" /\ package_name \notin standard_libs

\* get_latest_version: reg maps the names the registry knows to their latest
\* version; any other name is answered 404, which is returned as None.
\* None is modelled by the empty string (both are false in "if latest_version")
get_latest_version(reg, package_name) ==
    IF ~IsLookedUp(package_name) THEN ""
    ELSE IF package_name \in DOMAIN reg THEN reg[package_name]
    ELSE ""

check_update_needed(current_spec, latest_version) ==
    IF current_spec = "" THEN TRUE
    ELSE IF ~ValidSpecifierSet(current_spec) THEN TRUE
    ELSE IF ~ValidVersion(latest_version) THEN TRUE
    ELSE IF StartsWith(current_spec, "~=")
    THEN LET current == Sub(current_spec, 3, Len(current_spec))
         IN  IF ~ValidVersion(current) THEN TRUE
             ELSE /\ RelLess(Release(current), Release(latest_version))
                  /\ Release2(latest_version) = Release2(current)
    ELSE ~SetContains(current_spec, latest_version)

update_requirement(req, latest_version) ==
    LET parsed == parse_requirement(req)
    IN  IF parsed.spec # ""
        THEN IF parsed.operator = "~="
             THEN parsed.name \o "~=" \o latest_version
             ELSE parsed.name \o parsed.operator \o latest_version
        ELSE parsed.name \o "==" \o latest_version

(***************************************************************************)
(* check_dependencies                                                      *)
(***************************************************************************)

\* re.findall(r"^[^#\n]+", content, re.MULTILINE): of every line, the text
\* before the first '#', when not empty
RECURSIVE ManifestLines(_, _)
ManifestLines(content, p) ==
    IF p > Len(content) THEN <<>>
    ELSE IF (p = 1 \/ Ch(content, p - 1) = "\n") /\ Ch(content, p) \notin {"#", "\n"}
    THEN LET e == SkipUntil(content, {"#", "\n"}, p) - 1
         IN  <<Sub(content, p, e)>> \o ManifestLines(content, e + 1)
    ELSE ManifestLines(content, p + 1)

\* re.search(r"install_requires\s*=\s*\[(.*?)\]", content, re.DOTALL):
\* group 1 of the first match at or after position p
RECURSIVE InstallRequires(_, _)
InstallRequires(content, p) ==
    LET i == Find(content, "install_requires", p)
        j == SkipWhile(content, Whitespace, i + Len("install_requires"))
        k == SkipWhile(content, Whitespace, j + 1)
        c == Find(content, "]", k + 1)
    IN  IF i = 0 THEN [found |-> FALSE, list |-> ""]
        ELSE IF /\ j <= Len(content) /\ Ch(content, j) = "="
                /\ k <= Len(content) /\ Ch(content, k) = "["
                /\ c # 0
        THEN [found |-> TRUE, list |-> Sub(content, k + 1, c - 1)]
        ELSE InstallRequires(content, i + 1)

\* re.findall(r"'([^']+)'", text)
RECURSIVE QuotedItems(_, _)
QuotedItems(text, p) ==
    LET q == Find(text, "'", p)
        r == IF q = 0 THEN 0 ELSE Find(text, "'", q + 1)
    IN  IF q = 0 \/ r = 0 THEN <<>>
        ELSE IF r = q + 1 THEN QuotedItems(text, q + 1)
        ELSE <<Sub(text, q + 1, r - 1)>> \o QuotedItems(text, r + 1)

\* the requirement strings check_dependencies takes from one manifest
Requirements(file_path, content) ==
    IF file_path = "setup.py"
    THEN LET m == InstallRequires(content, 1)
         IN  IF m.found THEN QuotedItems(m.list, 1) ELSE <<>>
    ELSE ManifestLines(content, 1)

\* the specifier text check_dependencies hands to check_update_needed
current_version(parsed_req) == LStrip(parsed_req.spec, {"=", "~", "<", ">", "!"})

\* a scan that keeps every rewrite
AlwaysChange(req, updated_req) == TRUE

\* "if req != updated_req": only a rewrite that changes the line is kept
IsChange(req, updated_req) == req # updated_req

\* check_dependencies appends an update for this requirement
ProposesUpdate(reg, req) ==
    LET parsed_req == parse_requirement(req)
        latest_version == get_latest_version(reg, parsed_req.name)
    IN  /\ latest_version # ""
        /\ check_update_needed(current_version(parsed_req), latest_version)
        /\ IsChange(req, update_requirement(req, latest_version))

\* file_updates of one manifest
FileUpdates(reg, file_path, content) ==
    LET reqs == SelectSeq(Requirements(file_path, content),
                          LAMBDA req : ProposesUpdate(reg, req))
    IN  [i \in DOMAIN reqs |->
            [old |-> reqs[i],
             new |-> update_requirement(reqs[i],
                        get_latest_version(reg, parse_requirement(reqs[i]).name))]]

\* check_dependencies: files maps the manifests the repository has to their
\* content, failing is the set of manifests whose access raises.  The result
\* keeps the order of file_paths and omits manifests without updates.
check_dependencies(files, reg, failing) ==
    LET scannable == SelectSeq(file_paths,
            LAMBDA f : f \in DOMAIN files /\ f \notin failing
                       /\ FileUpdates(reg, f, files[f]) # <<>>)
    IN  [i \in DOMAIN scannable |->
            [file_path |-> scannable[i],
             file_updates |-> FileUpdates(reg, scannable[i], files[scannable[i]])]]

(***************************************************************************)
(* review_changes, create_pull_request: the parts that compute             *)
(***************************************************************************)

\* input(...).lower().strip()
Normalise(answer) == Strip(Lower(answer), Whitespace)

\* an approval test that takes every answer but "n" for a yes
IsApprovalLax(answer) == Normalise(answer) # "n"

\* 'if approval == "y"' in review_changes, 'if approval != "y"' negated in
\* check_and_update_repo
IsApproval(answer) == Normalise(answer) = "y"

\* total number of change prompts review_changes shows for these updates
RECURSIVE NumUpdates(_)
NumUpdates(ups) ==
    IF ups = <<>> THEN 0 ELSE Len(Head(ups).file_updates) + NumUpdates(Tail(ups))

\* the prompts of review_changes in the order shown: file by file, update by
\* update
RECURSIVE ChangeList(_)
ChangeList(ups) ==
    IF ups = <<>> THEN <<>>
    ELSE [i \in DOMAIN Head(ups).file_updates |->
            [file_path |-> Head(ups).file_path,
             old |-> Head(ups).file_updates[i].old,
             new |-> Head(ups).file_updates[i].new]]
         \o ChangeList(Tail(ups))

\* review_changes: answers[k] is the operator's answer to the k-th prompt;
\* a file keeps its approved updates in order and is omitted when it has none
RECURSIVE review_changes(_, _)
review_changes(ups, answers) ==
    IF ups = <<>> THEN <<>>
    ELSE LET n == Len(Head(ups).file_updates)
             idxs == SelectSeq([i \in 1..n |-> i], LAMBDA i : IsApproval(answers[i]))
             approved_file_updates == [j \in DOMAIN idxs |-> Head(ups).file_updates[idxs[j]]]
             rest == review_changes(Tail(ups), SubSeq(answers, n + 1, Len(answers)))
         IN  IF approved_file_updates # <<>>
             THEN <<[file_path |-> Head(ups).file_path,
                     file_updates |-> approved_file_updates]>> \o rest
             ELSE rest

\* the loop "content = content.replace(update['old'], update['new'])"
RECURSIVE ApplyUpdates(_, _)
ApplyUpdates(content, file_updates) ==
    IF file_updates = <<>> THEN content
    ELSE ApplyUpdates(Replace(content, Head(file_updates).old, Head(file_updates).new),
                      Tail(file_updates))

\* the text check_and_update_repo prints before the per-file prompt
PresentedContent(content, file_updates) == content

(***************************************************************************)
(* Inputs                                                                  *)
(***************************************************************************)

\* length of the configured repository list
MaxRepos == 2

\* how many manifests of one repository may fail to be read during the scan
MaxScanFailures == 1

RepoName(i) == "username/repo" \o ToString(i)

None == "None"

PrUrl == "pr.html_url"

\* what the operator may type at a prompt
Answers == {"y", "Y ", "n", ""}

\* outcomes of a call to the source-hosting platform
Outcomes == {"ok", "GithubException", "Exception"}

\* manifests of a repository: file name -> content
Manifests ==
    { ("requirements.txt" :> "requests==2.25.0\n"),
      ("requirements.txt" :> "foo\nfoobar==1.0\n"),
      ("requirements.txt" :> "# deps\nfoo>=1.0.0\n"),
      ("requirements.txt" :> "foo~=1.2.0\nbar==1.0 # pinned\n"),
      ("requirements.txt" :> "foo==2.0.0\n")
         @@ ("setup.py" :> "setup(install_requires=['foo==1.0.0', 'bar'])"),
      ("requirements.lock" :> "--index-url x\nfoo==1.0.0\n")
         @@ ("Pipfile" :> "[packages]\nfoo = \"*\"\n"),
      ("README.md" :> "docs") }

\* answers of the registry: package name -> latest version
Registries ==
    { ("foo" :> "2.0.0") @@ ("bar" :> "1.0") @@ ("foobar" :> "1.0")
         @@ ("requests" :> "2.31.0"),
      ("foo" :> "1.3.0") @@ ("bar" :> "2.0") @@ ("requests" :> "2.31.0"),
      ("foo" :> "1.2.5") }

NoRepo == [files |-> <<>>, push |-> FALSE]

(***************************************************************************)
(* State                                                                   *)
(***************************************************************************)

VARIABLES
    repositories,     \* self.repositories
    pc,               \* where check() is: "check", "scan", "review",
                      \* "confirm", "branch", "publish", "done", "crashed"
    idx,              \* index of the next repository check() takes
    started,          \* repositories whose run has started, in order
    results,          \* per finished run, the value returned and the level
                      \* of its last log message
    repo,             \* the repository of the current run as the platform
                      \* serves it: manifests and permissions.push
    registry,         \* the registry's answers during the current run
    failing,          \* manifests whose access raised during the scan
    updates,          \* result of check_dependencies
    change_prompts,   \* what review_changes showed, with the answers
    approved_updates, \* result of review_changes
    file_prompts,     \* what the per-file prompt showed, with the answers
    source_repo,      \* "", "original" or "fork"
    calls,            \* calls to the platform the current run made after
                      \* the review: branch, fork, read from the branch,
                      \* write, pull request
    local_files,      \* get_dependency_updates: the manifests on disk
    local_pos,        \* get_dependency_updates: index of the next file
    local_log,        \* get_dependency_updates: every line parsed
    local_updates     \* get_dependency_updates: the result so far

vars == <<repositories, pc, idx, started, results, repo, registry, failing,
          updates, change_prompts, approved_updates, file_prompts,
          source_repo, calls, local_files, local_pos, local_log,
          local_updates>>

runVars == <<repo, registry, failing, updates, change_prompts,
             approved_updates, file_prompts, source_repo, calls>>

localVars == <<local_files, local_pos, local_log, local_updates>>

(***************************************************************************)
(* check and check_and_update_repo                                         *)
(***************************************************************************)

Init ==
    /\ repositories \in {[i \in 1..n |-> RepoName(i)] : n \in 1..MaxRepos}
    /\ pc = "check"
    /\ idx = 1
    /\ started = <<>>
    /\ results = <<>>
    /\ repo = NoRepo
    /\ registry = <<>>
    /\ failing = {}
    /\ updates = <<>>
    /\ change_prompts = <<>>
    /\ approved_updates = <<>>
    /\ file_prompts = <<>>
    /\ source_repo = ""
    /\ calls = <<>>
    /\ local_files = <<>>
    /\ local_pos = 1
    /\ local_log = <<>>
    /\ local_updates = <<>>

\* a run boundary without the final "except Exception" clause
CaughtGithubOnly(exc) == exc = "GithubException"

\* the "except GithubException" and "except Exception" clauses that close
\* check_and_update_repo
Caught(exc) == exc \in {"GithubException", "Exception"}

\* check_and_update_repo returns value, its last log message having the
\* given level; check() goes on with its loop
Return(value, level) ==
    /\ results' = Append(results, [value |-> value, level |-> level])
    /\ idx' = idx + 1
    /\ pc' = "check"

\* exc is raised inside the try block of check_and_update_repo
Raise(exc) ==
    IF Caught(exc)
    THEN Return(None, "error")
    ELSE pc' = "crashed" /\ UNCHANGED <<results, idx>>

\* check() takes the next repository; check_and_update_repo asks the
\* platform for it
GetRepo ==
    /\ pc = "check"
    /\ idx <= Len(repositories)
    /\ started' = Append(started, repositories[idx])
    /\ registry' = <<>>
    /\ failing' = {}
    /\ updates' = <<>>
    /\ change_prompts' = <<>>
    /\ approved_updates' = <<>>
    /\ file_prompts' = <<>>
    /\ source_repo' = ""
    /\ calls' = <<>>
    /\ \E outcome \in Outcomes :
          IF outcome = "ok"
          THEN /\ \E files \in Manifests, push \in BOOLEAN :
                     repo' = [files |-> files, push |-> push]
               /\ pc' = "scan"
               /\ UNCHANGED <<results, idx>>
          ELSE /\ repo' = NoRepo
               /\ Raise(outcome)
    /\ UNCHANGED <<repositories, localVars>>

\* updates = self.check_dependencies(original_repo); "if not updates"
CheckDependencies ==
    /\ pc = "scan"
    /\ \E reg \in Registries, bad \in SUBSET (DOMAIN repo.files) :
          /\ Cardinality(bad) <= MaxScanFailures
          /\ registry' = reg
          /\ failing' = bad
          /\ updates' = check_dependencies(repo.files, reg, bad)
    /\ IF updates' = <<>>
       THEN Return(None, "info")
       ELSE pc' = "review" /\ UNCHANGED <<results, idx>>
    /\ UNCHANGED <<repositories, started, repo, change_prompts,
                   approved_updates, file_prompts, source_repo, calls,
                   localVars>>

\* approved_updates = self.review_changes(updates); "if not approved_updates".
\* eof is the prompt at which input() raises (0: none does)
ReviewChanges ==
    /\ pc = "review"
    /\ \E answers \in [1..NumUpdates(updates) -> Answers],
          eof \in 0..NumUpdates(updates) :
          IF eof = 0
          THEN /\ change_prompts' =
                     [k \in 1..NumUpdates(updates) |->
                         [change |-> ChangeList(updates)[k], answer |-> answers[k]]]
               /\ approved_updates' = review_changes(updates, answers)
               /\ IF approved_updates' = <<>>
                  THEN Return(None, "info")
                  ELSE pc' = "confirm" /\ UNCHANGED <<results, idx>>
          ELSE /\ \A k \in eof..NumUpdates(updates) : answers[k] = ""
               /\ change_prompts' =
                     [k \in 1..(eof - 1) |->
                         [change |-> ChangeList(updates)[k], answer |-> answers[k]]]
               /\ approved_updates' = <<>>
               /\ Raise("Exception")
    /\ UNCHANGED <<repositories, started, repo, registry, failing, updates,
                   file_prompts, source_repo, calls, localVars>>

\* the prompts the loop "Read and confirm the whole file before publishing"
\* gets through: it stops at the first file whose read raises (unreadable)
\* or whose answer is not an approval
ConfirmedUpTo(answers, unreadable) ==
    LET stops == {k \in DOMAIN answers : k = unreadable \/ ~IsApproval(answers[k])}
    IN  IF stops = {} THEN Len(answers)
        ELSE CHOOSE k \in stops : \A j \in stops : k <= j

\* the loop over approved_updates before publishing
ConfirmFiles ==
    /\ pc = "confirm"
    /\ \E answers \in [1..Len(approved_updates) -> Answers],
          unreadable \in 0..Len(approved_updates) :
          LET last == ConfirmedUpTo(answers, unreadable)
              shown == IF last = unreadable THEN last - 1 ELSE last
          IN  /\ \A k \in (last + 1)..Len(answers) : answers[k] = ""
              /\ unreadable \in {0, last}
              /\ file_prompts' =
                    [k \in 1..shown |->
                        [file_path |-> approved_updates[k].file_path,
                         content |-> PresentedContent(
                                        repo.files[approved_updates[k].file_path],
                                        approved_updates[k].file_updates),
                         answer |-> answers[k]]]
              /\ IF last = Len(answers) /\ unreadable = 0 /\ IsApproval(answers[last])
                 THEN pc' = "branch" /\ UNCHANGED <<results, idx>>
                 ELSE Return(None, IF last = unreadable THEN "error" ELSE "info")
    /\ UNCHANGED <<repositories, started, repo, registry, failing, updates,
                   change_prompts, approved_updates, source_repo, calls,
                   localVars>>

\* a create_branch that logs a GithubException and does not raise it again
create_branch_swallows(outcome) == outcome = "Exception"

\* create_branch lets the failure of the platform call out ("raise")
create_branch_raises(outcome) == outcome # "ok"

\* "if original_repo.permissions.push": self.create_branch(...)
CreateBranch ==
    /\ pc = "branch"
    /\ repo.push
    /\ \E outcome \in Outcomes :
          /\ calls' = Append(calls, [op |-> "create_git_ref", ok |-> outcome = "ok",
                                     file_path |-> "", content |-> ""])
          /\ IF create_branch_raises(outcome)
             THEN Raise(outcome) /\ UNCHANGED source_repo
             ELSE /\ source_repo' = "original"
                  /\ pc' = "publish"
                  /\ UNCHANGED <<results, idx>>
    /\ UNCHANGED <<repositories, started, repo, registry, failing, updates,
                   change_prompts, approved_updates, file_prompts, localVars>>

\* create_fork_and_branch returns None on a GithubException
fork_returns_none(outcome) == outcome = "GithubException"

\* "else": source_repo = self.create_fork_and_branch(...); "if not source_repo".
\* The failure, if any, is raised by create_fork or by create_git_ref
CreateForkAndBranch ==
    /\ pc = "branch"
    /\ ~repo.push
    /\ \E outcome \in Outcomes, stage \in {"create_fork", "create_git_ref"} :
          /\ outcome = "ok" => stage = "create_git_ref"
          /\ calls' = calls
                \o <<[op |-> "create_fork",
                      ok |-> outcome = "ok" \/ stage # "create_fork",
                      file_path |-> "", content |-> ""]>>
                \o IF stage = "create_git_ref"
                   THEN <<[op |-> "create_git_ref", ok |-> outcome = "ok",
                           file_path |-> "", content |-> ""]>>
                   ELSE <<>>
          /\ IF outcome = "ok"
             THEN /\ source_repo' = "fork"
                  /\ pc' = "publish"
                  /\ UNCHANGED <<results, idx>>
             ELSE /\ UNCHANGED source_repo
                  /\ IF fork_returns_none(outcome)
                     THEN Return(None, "error")
                     ELSE Raise(outcome)
    /\ UNCHANGED <<repositories, started, repo, registry, failing, updates,
                   change_prompts, approved_updates, file_prompts, localVars>>

\* the new branch exists
BranchExists ==
    \E i \in DOMAIN calls : calls[i].op = "create_git_ref" /\ calls[i].ok

\* the calls of the file loop of create_pull_request: per approved file, in
\* order, outcome[k] says whether reading the file from the branch raised
\* ("read_fails"), update_file raised ("write_fails") or both worked ("ok");
\* either failure is logged and the loop goes on with the next file
RECURSIVE FileWrites(_, _, _)
FileWrites(files, ups, outcome) ==
    IF ups = <<>> THEN <<>>
    ELSE <<[op |-> "get_contents",
            ok |-> Head(outcome) # "read_fails",
            file_path |-> Head(ups).file_path,
            content |-> IF Head(outcome) # "read_fails"
                        THEN files[Head(ups).file_path] ELSE ""]>>
         \o (IF Head(outcome) = "read_fails" THEN <<>>
          ELSE <<[op |-> "update_file",
                  ok |-> Head(outcome) = "ok",
                  file_path |-> Head(ups).file_path,
                  content |-> ApplyUpdates(files[Head(ups).file_path],
                                           Head(ups).file_updates)]>>)
         \o FileWrites(files, Tail(ups), Tail(outcome))

\* pr_url = self.create_pull_request(...); return pr_url
CreatePullRequest ==
    /\ pc = "publish"
    /\ IF approved_updates = <<>>
       THEN Return(None, "info") /\ UNCHANGED calls
       ELSE \E outcome \in [1..Len(approved_updates) ->
                               {"ok", "read_fails", "write_fails"}],
               pull \in Outcomes :
               LET writes == FileWrites(repo.files, approved_updates, outcome)
               IN  \* the platform cannot read from a branch that does not
                   \* exist, and refuses a pull request without commits
                   /\ ~BranchExists => \A k \in DOMAIN outcome : outcome[k] = "read_fails"
                   /\ pull = "ok" => \E k \in DOMAIN outcome : outcome[k] = "ok"
                   /\ calls' = calls \o writes
                         \o <<[op |-> "create_pull", ok |-> pull = "ok",
                               file_path |-> "", content |-> ""]>>
                   /\ IF pull = "ok"
                      THEN Return(PrUrl, "info")
                      ELSE Return(None, "error")
    /\ UNCHANGED <<repositories, started, repo, registry, failing, updates,
                   change_prompts, approved_updates, file_prompts, source_repo,
                   localVars>>

\* the loop of check() is over
CheckReturns ==
    /\ pc = "check"
    /\ idx > Len(repositories)
    /\ pc' = "done"
    /\ UNCHANGED <<repositories, idx, started, results, runVars, localVars>>

Next ==
    \/ GetRepo
    \/ CheckDependencies
    \/ ReviewChanges
    \/ ConfirmFiles
    \/ CreateBranch
    \/ CreateForkAndBranch
    \/ CreatePullRequest
    \/ CheckReturns

Spec == Init /\ [][Next]_vars

(***************************************************************************)
(* get_dependency_updates: the scan of the manifests on the local disk     *)
(***************************************************************************)

\* file.readlines(): the lines of a file, each with its line end
RECURSIVE ReadLines(_)
ReadLines(content) ==
    IF content = "" THEN <<>>
    ELSE LET i == MinOf(SkipUntil(content, {"\n"}, 1), Len(content))
         IN  <<Sub(content, 1, i)>> \o ReadLines(Sub(content, i + 1, Len(content)))

\* contents a manifest on disk may have
LocalContents ==
    { "# pinned\nfoo==1.0.0\n",
      "-e .\n--index-url x\nbar\n",
      "import os\nfoo>=1.0.0\nrequests\n" }

\* the manifests on disk: any of the four names may be missing
LocalManifests ==
    UNION {[names -> LocalContents] :
              names \in SUBSET {file_paths[i] : i \in DOMAIN file_paths}}

\* "if latest_version and self.check_update_needed(req['spec'], latest_version)"
LocalProposesUpdate(reg, line) ==
    LET req == parse_requirement(line)
        latest_version == get_latest_version(reg, req.name)
    IN  latest_version # "" /\ check_update_needed(req.spec, latest_version)

\* file_updates of one manifest on disk
LocalFileUpdates(reg, lines) ==
    LET hits == SelectSeq(lines, LAMBDA line : LocalProposesUpdate(reg, line))
    IN  [i \in DOMAIN hits |->
            [old |-> Strip(hits[i], Whitespace),
             new |-> parse_requirement(hits[i]).name \o "=="
                     \o get_latest_version(reg, parse_requirement(hits[i]).name)]]

InitLocal ==
    /\ repositories = <<>>
    /\ pc = "local"
    /\ idx = 1
    /\ started = <<>>
    /\ results = <<>>
    /\ repo = NoRepo
    /\ registry \in Registries
    /\ failing = {}
    /\ updates = <<>>
    /\ change_prompts = <<>>
    /\ approved_updates = <<>>
    /\ file_prompts = <<>>
    /\ source_repo = ""
    /\ calls = <<>>
    /\ local_files \in LocalManifests
    /\ local_pos = 1
    /\ local_log = <<>>
    /\ local_updates = <<>>

\* one turn of the loop over self.file_paths; a missing file makes open()
\* raise, which is logged
ScanLocalFile ==
    /\ pc = "local"
    /\ local_pos <= Len(file_paths)
    /\ LET file_path == file_paths[local_pos]
       IN  IF file_path \notin DOMAIN local_files
           THEN UNCHANGED <<local_log, local_updates>>
           ELSE LET lines == ReadLines(local_files[file_path])
                    file_updates == LocalFileUpdates(registry, lines)
                IN  /\ local_log' = local_log \o
                          [i \in DOMAIN lines |->
                              [line |-> lines[i],
                               parsed |-> parse_requirement(lines[i]),
                               looked_up |-> IsLookedUp(parse_requirement(lines[i]).name)]]
                    /\ local_updates' =
                          IF file_updates # <<>>
                          THEN Append(local_updates,
                                      [file_path |-> file_path,
                                       file_updates |-> file_updates])
                          ELSE local_updates
    /\ local_pos' = local_pos + 1
    /\ UNCHANGED <<repositories, pc, idx, started, results, runVars, local_files>>

\* "return updates"
LocalReturn ==
    /\ pc = "local"
    /\ local_pos > Len(file_paths)
    /\ pc' = "local_done"
    /\ UNCHANGED <<repositories, idx, started, results, runVars, localVars>>

NextLocal ==
    \/ ScanLocalFile
    \/ LocalReturn

SpecLocal == InitLocal /\ [][NextLocal]_vars

(***************************************************************************)
(* Properties                                                              *)
(***************************************************************************)

\* the latest run has returned
RunEnded == started # <<>> /\ Len(results) = Len(started)

LastResult == results[Len(results)]

Range(seq) == {seq[i] : i \in DOMAIN seq}

\* the operator answered every change prompt, none with a yes
AllChangesRejected ==
    /\ updates # <<>>
    /\ Len(change_prompts) = NumUpdates(updates)
    /\ \A k \in DOMAIN change_prompts : Normalise(change_prompts[k].answer) # "y"

\* the operator answered a per-file prompt with something else than a yes
SomeFileRejected ==
    \E k \in DOMAIN file_prompts : Normalise(file_prompts[k].answer) # "y"

PublishingOps == {"create_git_ref", "create_fork", "update_file", "create_pull"}

\* C1: when the operator rejects every proposed change, or does not answer
\* yes at a per-file prompt, the run has returned None and has made no
\* branch, fork, write or pull-request call
C1_ReviewRejectionNoSideEffects ==
    (AllChangesRejected \/ SomeFileRejected) =>
        /\ RunEnded
        /\ LastResult.value = None
        /\ \A i \in DOMAIN calls : calls[i].op \notin PublishingOps

\* a second file was refused after the first was approved
C1_Witness ==
    /\ RunEnded
    /\ Len(file_prompts) = 2
    /\ Normalise(file_prompts[1].answer) = "y"
    /\ Normalise(file_prompts[2].answer) # "y"
    /\ LastResult.value = None

\* C2: once reading or writing an approved file has failed during
\* publication, no later file is written and create_pull is not called
C2_FailedWriteAbortsPublication ==
    \A i \in DOMAIN calls :
        (calls[i].op \in {"get_contents", "update_file"} /\ ~calls[i].ok) =>
            \A j \in DOMAIN calls :
                j > i => calls[j].op \notin {"update_file", "create_pull"}

\* the scan of the current run is over and no manifest failed to be read
ScanSucceeded == registry # <<>> /\ failing = {}

\* C3: with requirements.txt holding requests==2.25.0 and the registry
\* reporting 2.31.0, the scan returns the single update to requests==2.31.0,
\* and a run in which the operator approved it and the platform did not fail
\* made exactly one write and then one pull request
C3_RequestsEndToEnd ==
    ( /\ repo.files = ("requirements.txt" :> "requests==2.25.0\n")
      /\ ScanSucceeded
      /\ "requests" \in DOMAIN registry
      /\ registry["requests"] = "2.31.0" ) =>
        /\ updates = <<[file_path |-> "requirements.txt",
                        file_updates |-> <<[old |-> "requests==2.25.0",
                                            new |-> "requests==2.31.0"]>>]>>
        /\ (RunEnded /\ LastResult.value = PrUrl) =>
              SelectSeq(calls, LAMBDA c : c.op \in {"update_file", "create_pull"})
                 = <<[op |-> "update_file", ok |-> TRUE,
                      file_path |-> "requirements.txt",
                      content |-> "requests==2.31.0\n"],
                     [op |-> "create_pull", ok |-> TRUE,
                      file_path |-> "", content |-> ""]>>

\* creating the branch or the fork failed in the current run
BranchOrForkFailed ==
    \E i \in DOMAIN calls :
        calls[i].op \in {"create_git_ref", "create_fork"} /\ ~calls[i].ok

\* C4: when create_branch or create_fork_and_branch fails, the run has
\* returned None without a write or a pull request, and check() goes on
C4_BranchFailureIsFatalForRun ==
    /\ pc # "crashed"
    /\ BranchOrForkFailed =>
          /\ RunEnded
          /\ LastResult.value = None
          /\ \A i \in DOMAIN calls :
                calls[i].op \notin {"get_contents", "update_file", "create_pull"}

\* create_branch failed on a repository the credential may push to
C4_Witness ==
    /\ BranchOrForkFailed
    /\ repo.push
    /\ RunEnded
    /\ LastResult.value = None
    /\ LastResult.level = "error"

\* C5: check() starts the runs in list order, one per repository; whatever
\* way a run ends, the loop goes on with the next repository, and when
\* check() returns every repository has had its run
C5_PerRepositoryIsolation ==
    /\ [](/\ pc # "crashed"
          /\ Len(started) <= Len(repositories)
          /\ \A i \in DOMAIN started : started[i] = repositories[i]
          /\ Len(results) \in {Len(started), Len(started) - 1}
          /\ pc = "check" => idx = Len(started) + 1 /\ Len(results) = Len(started)
          /\ pc = "done" => started = repositories /\ Len(results) = Len(started))
    /\ [][Len(results') # Len(results) =>
            /\ results' = Append(results, LastResult')
            /\ pc' = "check"
            /\ idx' = idx + 1]_vars

\* a run started after an earlier run had failed
C5_Witness ==
    /\ Len(started) >= 2
    /\ results[1].level = "error"
    /\ pc = "scan"

\* C6: every update the scan returns is one the update-decision policy asks
\* for when given the requirement's specifier as written, operator included
C6_UpdatesFollowPolicy ==
    \A i \in DOMAIN updates :
        \A k \in DOMAIN updates[i].file_updates :
            LET parsed == parse_requirement(updates[i].file_updates[k].old)
            IN  check_update_needed(parsed.spec,
                                    get_latest_version(registry, parsed.name))

NoNoOp(ups) ==
    \A i \in DOMAIN ups :
        \A k \in DOMAIN ups[i].file_updates :
            ups[i].file_updates[k].old # ups[i].file_updates[k].new

\* C7: no update with old = new is returned by the scan, shown to the
\* operator or handed to create_pull_request
C7_NoNoOpUpdate ==
    /\ NoNoOp(updates)
    /\ NoNoOp(approved_updates)
    /\ \A k \in DOMAIN change_prompts :
          change_prompts[k].change.old # change_prompts[k].change.new

\* the scan met a requirement that is already at the latest version, and
\* returned updates for others
C7_Witness ==
    /\ updates # <<>>
    /\ ScanSucceeded
    /\ \E f \in DOMAIN repo.files :
          \E req \in Range(Requirements(f, repo.files[f])) :
             LET latest_version ==
                     get_latest_version(registry, parse_requirement(req).name)
             IN  /\ latest_version # ""
                 /\ update_requirement(req, latest_version) = req

\* the prefixes the requirement parser is to exclude
ClaimedPrefixes == {"#", "--", "-e", "from", "import", "def"}

\* C8: a line that starts with an excluded prefix parses to the empty-name
\* sentinel and is not looked up in the registry
C8_ExcludedLinesParseToSentinel ==
    \A i \in DOMAIN local_log :
        (\E prefix \in ClaimedPrefixes : StartsWith(local_log[i].line, prefix)) =>
            /\ local_log[i].parsed = Sentinel
            /\ ~local_log[i].looked_up

\* C9: what is written to the branch for a file is what the operator was
\* shown at that file's prompt
C9_PresentedIsWritten ==
    \A i \in DOMAIN calls :
        calls[i].op = "update_file" =>
            \E k \in DOMAIN file_prompts :
                /\ file_prompts[k].file_path = calls[i].file_path
                /\ file_prompts[k].content = calls[i].content

\* the updates approved for a file
ApprovedFor(file_path) ==
    UNION {Range(approved_updates[i].file_updates) :
              i \in {j \in DOMAIN approved_updates :
                        approved_updates[j].file_path = file_path}}

\* C10: a written file differs from the file read only in lines that hold a
\* requirement whose update was approved, and only files with an approved
\* update are written
C10_OnlyApprovedChangesPublished ==
    \A i \in DOMAIN calls :
        calls[i].op = "update_file" =>
            LET before == SplitOn(repo.files[calls[i].file_path], "\n")
                after  == SplitOn(calls[i].content, "\n")
            IN  /\ ApprovedFor(calls[i].file_path) # {}
                /\ Len(after) = Len(before)
                /\ \A n \in DOMAIN before :
                      before[n] # after[n] =>
                         \E u \in ApprovedFor(calls[i].file_path) :
                            u.old \in Range(Requirements(calls[i].file_path, before[n]))

====
